---- MODULE Spec2Model ----
(***************************************************************************)
(* The automation engine of src/main.js: the auto-clicker, the hold/toggle *)
(* hotkey controller, the macro recorder and the macro player, as a state  *)
(* machine over the module-level variables of main.js, the settings store, *)
(* and the timers registered with setInterval / setTimeout.                *)
(***************************************************************************)
EXTENDS Integers, Sequences, FiniteSets, TLC

VARIABLES
  storeSettings,        \* store entry 'settings' (Unset when never saved)
  storeLastMacro,       \* store entry 'lastMacro'
  autoClickerInterval,  \* main.js:14
  intervals,            \* timers registered by setInterval and not cleared
  nextTimerId,          \* identity of the next Timeout object setInterval returns
  macroRecording,       \* main.js:15
  macroPlaying,         \* main.js:16
  hotkeyPressed,        \* main.js:17
  isAppQuitting,        \* main.js:11
  keyListener,          \* main.js:10, "listening" | "killed"
  runs,                 \* live play-macro closures: playCount, maxPlays, macro, speed
  timers,               \* pending setTimeout callbacks, in registration order
  synthDown,            \* history: keys robot.keyToggle last put down
  recording,            \* history: start-macro-recording handled, stop not yet
  heard,                \* history: the DOWN events delivered while recording
  lastOp,               \* history: the handler or callback that ran last, its result
  out                   \* history: actuator calls and notifications of that step

vars == <<storeSettings, storeLastMacro, autoClickerInterval, intervals, nextTimerId,
          macroRecording, macroPlaying, hotkeyPressed, isAppQuitting, keyListener,
          runs, timers, synthDown, recording, heard, lastOp, out>>

recVars == <<recording, heard>>

inputVars == <<storeSettings, storeLastMacro, autoClickerInterval, intervals,
               nextTimerId, macroRecording, hotkeyPressed, isAppQuitting,
               keyListener, synthDown, recVars>>

macroVars == <<macroPlaying, runs, timers>>

----------------------------------------------------------------------------
(* Bounds of the model *)

MaxIntervals == 3   \* setInterval calls over a behaviour
MaxRuns == 1        \* play-macro closures alive at once (one more in OverlapSpec)
MaxLen == 2         \* longest macro
MaxTimes == 1       \* largest finite repeat count

----------------------------------------------------------------------------
(* JavaScript values *)

Undef == "undefined"

NumUndef == [t |-> "undefined", v |-> 0]
Num(n) == [t |-> "number", v |-> n]

\* x || d for a number-or-undefined x: undefined and 0 are falsy
OrDefault(x, d) == IF x.t = "undefined" \/ x.v = 0 THEN d ELSE x.v

\* s || d for a string-or-undefined s
OrKey(s, d) == IF s = Undef THEN d ELSE s

\* String.prototype.toLowerCase on the key names of the model
ToLowerCase(s) ==
  CASE s = "F" -> "f"
    [] s = "G" -> "g"
    [] s = "F1" -> "f1"
    [] s = "F2" -> "f2"
    [] s = "F3" -> "f3"
    [] OTHER -> s

Keys == {"F", "G", "F1", "F2"}

----------------------------------------------------------------------------
(* The settings store *)

Unset == [set |-> FALSE,
          autoClickerSpeed |-> NumUndef, autoClickerHotkey |-> Undef,
          macroRecordHotkey |-> Undef, macroPlaybackHotkey |-> Undef,
          macroSpeed |-> NumUndef, hotkeyButton |-> Undef, hotkeyMode |-> Undef]

\* the objects save-settings is called with
SettingsObjects ==
  [set : {TRUE},
   autoClickerSpeed : {NumUndef, Num(50)},
   autoClickerHotkey : {Undef, "G"},
   macroRecordHotkey : {Undef},
   macroPlaybackHotkey : {Undef},
   macroSpeed : {NumUndef},
   hotkeyButton : {Undef, "F", "G"},
   hotkeyMode : {Undef, "hold", "toggle"}]

\* the {} default of store.get('settings', {})
EmptyObjectDefaults ==
  [set |-> TRUE,
   autoClickerSpeed |-> Num(100), autoClickerHotkey |-> "F1",
   macroRecordHotkey |-> "F2", macroPlaybackHotkey |-> "F3",
   macroSpeed |-> Num(1), hotkeyButton |-> "F", hotkeyMode |-> "toggle"]
EmptyObject == [Unset EXCEPT !.set = TRUE]

\* the default of get-settings
DefaultSettings ==
  [set |-> TRUE,
   autoClickerSpeed |-> Num(100), autoClickerHotkey |-> "F1",
   macroRecordHotkey |-> "F2", macroPlaybackHotkey |-> "F3",
   macroSpeed |-> Num(1), hotkeyButton |-> "F", hotkeyMode |-> "toggle"]

\* store.get('settings', default)
StoreGetSettings(default) == IF storeSettings.set THEN storeSettings ELSE default

----------------------------------------------------------------------------
(* History of the last step *)

NoOp == [op |-> "init", key |-> "", ret |-> FALSE, run |-> 0, idx |-> 0,
         speed |-> 0, times |-> 0, len |-> 0, dispatched |-> FALSE,
         ended |-> FALSE, count |-> 0, fired |-> 0, quiet |-> FALSE,
         stopped |-> FALSE, overlap |-> FALSE, at |-> 0, val |-> Unset,
         seq |-> <<>>, active |-> FALSE]

Cmd(c, a, b) == [cmd |-> c, a |-> a, b |-> b]

KeyToggle(key, dir) == Cmd("keyToggle", key, dir)
Send(channel) == Cmd("send", channel, "")
MouseClick(button) == Cmd("mouseClick", button, "")

\* the keys left down after the robot.keyToggle calls of cmds
RECURSIVE ApplyToggles(_, _)
ApplyToggles(down, cmds) ==
  IF cmds = <<>> THEN down
  ELSE LET c == Head(cmds)
           d == IF c.cmd # "keyToggle" THEN down
                ELSE IF c.b = "down" THEN down \cup {c.a}
                ELSE down \ {c.a}
       IN ApplyToggles(d, Tail(cmds))

----------------------------------------------------------------------------
(* Auto-clicker *)

NoHandle == [t |-> "undefined", id |-> 0]
NullHandle == [t |-> "null", id |-> 0]
Handle(id) == [t |-> "timer", id |-> id]

Truthy(h) == h.t = "timer"

\* clearInterval(h): the timer of that identity is no longer registered
ClearIntervalNone(regs, h) == regs
ClearInterval(regs, h) == {r \in regs : r.id # h.id}

\* setInterval(cb, ms): a new Timeout object, registered whatever ms is
SetInterval(regs, id, ms) == regs \cup {[id |-> id, ms |-> ms]}

\* stopAutoClicker(), as the pair <<handle, registered timers>> it leaves
StopAutoClickerNulls(h, regs) == <<NullHandle, ClearInterval(regs, h)>>
StopAutoClickerLoses(h, regs) == <<NullHandle, regs>>
StopAutoClicker(h, regs) ==
  IF Truthy(h) THEN <<NullHandle, ClearInterval(regs, h)>> ELSE <<h, regs>>

ClickerSpeeds == {-1, 0, 50}

\* ipcMain.handle('start-auto-clicker')
StartAutoClicker(speed) ==
  /\ nextTimerId <= MaxIntervals
  /\ LET s == StopAutoClicker(autoClickerInterval, intervals)
     IN /\ autoClickerInterval' = Handle(nextTimerId)
        /\ intervals' = SetInterval(s[2], nextTimerId, speed)
  /\ nextTimerId' = nextTimerId + 1
  /\ lastOp' = [NoOp EXCEPT !.op = "start-auto-clicker", !.speed = speed,
                            !.active = Truthy(autoClickerInterval),
                            !.ret = TRUE]
  /\ out' = <<>>
  /\ UNCHANGED <<storeSettings, storeLastMacro, macroRecording, hotkeyPressed,
                 isAppQuitting, keyListener, synthDown, recVars, macroVars>>

\* ipcMain.handle('stop-auto-clicker')
StopAutoClickerCall ==
  /\ LET s == StopAutoClicker(autoClickerInterval, intervals)
     IN /\ autoClickerInterval' = s[1]
        /\ intervals' = s[2]
  /\ lastOp' = [NoOp EXCEPT !.op = "stop-auto-clicker",
                            !.active = Truthy(autoClickerInterval),
                            !.ret = TRUE]
  /\ out' = <<>>
  /\ UNCHANGED <<storeSettings, storeLastMacro, nextTimerId, macroRecording,
                 hotkeyPressed, isAppQuitting, keyListener, synthDown, recVars, macroVars>>

\* the callback of a registered interval timer
Tick(r) ==
  /\ r \in intervals
  /\ lastOp' = [NoOp EXCEPT !.op = "tick", !.run = r.id]
  /\ out' = <<MouseClick("left")>>
  /\ UNCHANGED <<inputVars, macroVars>>

\* toggleAutoClicker(), as <<handle, registered timers, next id, notifications>>
ToggleAutoClickerKeepsTimer(h, regs, id) ==
  IF Truthy(h)
  THEN <<NullHandle, regs, id, <<Send("auto-clicker-stopped")>> >>
  ELSE LET settings == StoreGetSettings(EmptyObject)
       IN <<Handle(id),
            SetInterval(regs, id, OrDefault(settings.autoClickerSpeed, 100)),
            id + 1, <<Send("auto-clicker-started")>> >>
ToggleAutoClicker(h, regs, id) ==
  IF Truthy(h)
  THEN LET s == StopAutoClicker(h, regs)
       IN <<s[1], s[2], id, <<Send("auto-clicker-stopped")>> >>
  ELSE LET settings == StoreGetSettings(EmptyObject)
       IN <<Handle(id),
            SetInterval(regs, id, OrDefault(settings.autoClickerSpeed, 100)),
            id + 1, <<Send("auto-clicker-started")>> >>

\* app.on('before-quit')
BeforeQuit ==
  /\ ~isAppQuitting
  /\ isAppQuitting' = TRUE
  /\ LET s == StopAutoClicker(autoClickerInterval, intervals)
     IN /\ autoClickerInterval' = s[1]
        /\ intervals' = s[2]
  /\ keyListener' = "killed"
  /\ lastOp' = [NoOp EXCEPT !.op = "before-quit"]
  /\ out' = <<>>
  /\ UNCHANGED <<storeSettings, storeLastMacro, nextTimerId, macroRecording,
                 hotkeyPressed, synthDown, recVars, macroVars>>

----------------------------------------------------------------------------
(* Settings and recording handlers *)

\* ipcMain.handle('get-settings')
GetSettings ==
  /\ lastOp' = [NoOp EXCEPT !.op = "get-settings",
                            !.val = StoreGetSettings(DefaultSettings)]
  /\ out' = <<>>
  /\ UNCHANGED <<inputVars, macroVars>>

\* ipcMain.handle('save-settings')
SaveSettings(settings) ==
  /\ storeSettings' = settings
  /\ lastOp' = [NoOp EXCEPT !.op = "save-settings", !.ret = TRUE]
  /\ out' = <<>>
  /\ UNCHANGED <<storeLastMacro, autoClickerInterval, intervals, nextTimerId,
                 macroRecording, hotkeyPressed, isAppQuitting, keyListener,
                 synthDown, recVars, macroVars>>

\* ipcMain.handle('start-macro-recording')
StartMacroRecording ==
  /\ macroRecording' = <<>>
  /\ recording' = TRUE
  /\ heard' = <<>>
  /\ lastOp' = [NoOp EXCEPT !.op = "start-macro-recording", !.ret = TRUE]
  /\ out' = <<>>
  /\ UNCHANGED <<storeSettings, storeLastMacro, autoClickerInterval, intervals,
                 nextTimerId, hotkeyPressed, isAppQuitting, keyListener,
                 synthDown, macroVars>>

\* ipcMain.handle('stop-macro-recording')
StopMacroRecording ==
  /\ storeLastMacro' = macroRecording
  /\ recording' = FALSE
  /\ heard' = heard
  /\ lastOp' = [NoOp EXCEPT !.op = "stop-macro-recording", !.seq = macroRecording]
  /\ out' = <<>>
  /\ UNCHANGED <<storeSettings, autoClickerInterval, intervals, nextTimerId,
                 macroRecording, hotkeyPressed, isAppQuitting, keyListener,
                 synthDown, macroVars>>

----------------------------------------------------------------------------
(* The global key listener *)

\* toggleMacroRecording()
ToggleMacroRecording == <<Send("macro-recording-toggled")>>

\* playMacro()
PlayMacroHotkey ==
  IF Len(storeLastMacro) > 0 THEN <<Send("macro-played")>> ELSE <<>>

\* robot.keyToggle(settings.hotkeyButton.toLowerCase(), dir): the TypeError of
\* undefined.toLowerCase() ends the listener before anything is emitted
EmitHotkey(settings, dir) ==
  IF settings.hotkeyButton = Undef THEN <<>>
  ELSE <<KeyToggle(ToLowerCase(settings.hotkeyButton), dir)>>

\* the "Hotkey clicker" branch of a DOWN event: <<hotkeyPressed, actuator calls>>
HotkeyDownNoFlip(settings, name, pressed) ==
  IF name = OrKey(settings.hotkeyButton, "F")
  THEN IF settings.hotkeyMode = "hold"
       THEN <<pressed, EmitHotkey(settings, "down")>>
       ELSE IF settings.hotkeyMode = "toggle"
       THEN <<pressed, EmitHotkey(settings, IF ~pressed THEN "down" ELSE "up")>>
       ELSE <<pressed, <<>> >>
  ELSE <<pressed, <<>> >>
HotkeyDownHoldFlips(settings, name, pressed) ==
  IF name = OrKey(settings.hotkeyButton, "F")
  THEN IF settings.hotkeyMode = "hold"
       THEN <<~pressed, EmitHotkey(settings, "down")>>
       ELSE IF settings.hotkeyMode = "toggle"
       THEN <<~pressed, EmitHotkey(settings, IF ~pressed THEN "down" ELSE "up")>>
       ELSE <<pressed, <<>> >>
  ELSE <<pressed, <<>> >>
HotkeyDown(settings, name, pressed) ==
  IF name = OrKey(settings.hotkeyButton, "F")
  THEN IF settings.hotkeyMode = "hold"
       THEN <<pressed, EmitHotkey(settings, "down")>>
       ELSE IF settings.hotkeyMode = "toggle"
       THEN <<~pressed, EmitHotkey(settings, IF ~pressed THEN "down" ELSE "up")>>
       ELSE <<pressed, <<>> >>
  ELSE <<pressed, <<>> >>

\* the UP branch of the listener: the actuator calls
HotkeyUp(settings, name) ==
  IF name = OrKey(settings.hotkeyButton, "F") /\ settings.hotkeyMode = "hold"
  THEN EmitHotkey(settings, "up")
  ELSE <<>>

\* the listener on an event with e.state = 'DOWN'
KeyDown(name) ==
  /\ keyListener = "listening"
  /\ LET settings == StoreGetSettings(EmptyObject)
         clicker == IF name = OrKey(settings.autoClickerHotkey, "F1")
                    THEN ToggleAutoClicker(autoClickerInterval, intervals, nextTimerId)
                    ELSE <<autoClickerInterval, intervals, nextTimerId, <<>> >>
         rec == IF name = OrKey(settings.macroRecordHotkey, "F2")
                THEN ToggleMacroRecording ELSE <<>>
         play == IF name = OrKey(settings.macroPlaybackHotkey, "F3")
                 THEN PlayMacroHotkey ELSE <<>>
         hot == HotkeyDown(settings, name, hotkeyPressed)
         cmds == clicker[4] \o rec \o play \o hot[2]
     IN /\ clicker[3] <= MaxIntervals + 1
        /\ autoClickerInterval' = clicker[1]
        /\ intervals' = clicker[2]
        /\ nextTimerId' = clicker[3]
        /\ hotkeyPressed' = hot[1]
        /\ out' = cmds
        /\ synthDown' = ApplyToggles(synthDown, cmds)
  /\ recording => Len(heard) < MaxLen
  /\ heard' = IF recording THEN Append(heard, name) ELSE heard
  /\ lastOp' = [NoOp EXCEPT !.op = "key-down", !.key = name]
  /\ UNCHANGED <<storeSettings, storeLastMacro, macroRecording, isAppQuitting,
                 keyListener, recording, macroVars>>

\* the listener on an event with e.state = 'UP'
KeyUp(name) ==
  /\ keyListener = "listening"
  /\ LET settings == StoreGetSettings(EmptyObject)
         cmds == HotkeyUp(settings, name)
     IN /\ out' = cmds
        /\ synthDown' = ApplyToggles(synthDown, cmds)
  /\ lastOp' = [NoOp EXCEPT !.op = "key-up", !.key = name]
  /\ UNCHANGED <<storeSettings, storeLastMacro, autoClickerInterval, intervals,
                 nextTimerId, macroRecording, hotkeyPressed, isAppQuitting,
                 keyListener, recVars, macroVars>>

----------------------------------------------------------------------------
(* JavaScript numbers of the playback delays *)

Fin(n) == [k |-> "finite", v |-> n]
Infinity == [k |-> "Infinity", v |-> 0]
NaN == [k |-> "NaN", v |-> 0]

StepMs == 100       \* main.js:197, the 100 of 100 / speed
GapMs == 100        \* main.js:201, the + 100 between repetitions

\* the speeds of the model: each divides StepMs, so 100 / speed is exact
Speeds == {0, 1, 2}

\* the finest delay a speed of the model gives
Quantum == StepMs \div 2

\* 100 / speed
JsDivStep(speed) == IF speed = 0 THEN Infinity ELSE Fin(StepMs \div speed)

\* n * x for a non-negative integer n
JsTimes(n, x) ==
  IF x.k = "finite" THEN Fin(n * x.v)
  ELSE IF n = 0 THEN NaN ELSE x

\* x + n
JsPlus(x, n) == IF x.k = "finite" THEN Fin(x.v + n) ELSE x

\* index * (100 / speed)
ActionDelaySwapped(index, speed) == JsTimes(index, Fin(StepMs * speed))
ActionDelay(index, speed) == JsTimes(index, JsDivStep(speed))

\* macro.length * (100 / speed) + 100
RepeatDelayNoGap(len, speed) == JsTimes(len, JsDivStep(speed))
RepeatDelay(len, speed) == JsPlus(JsTimes(len, JsDivStep(speed)), GapMs)

\* the delay setTimeout gives a callback: a delay that is no number >= 0
\* (negative, NaN, Infinity) runs the callback as soon as possible
TimerDelay(d) == IF d.k = "finite" /\ d.v >= 0 THEN d.v ELSE 0

\* playCount >= maxPlays
JsGt(n, m) == m.k = "finite" /\ n > m.v
JsGe(n, m) == m.k = "finite" /\ n >= m.v

\* the largest count playCount++ still changes (2^53 in the program)
MaxSafeCount == MaxTimes + 1
Incr(n) == IF n < MaxSafeCount THEN n + 1 ELSE n

\* where the history count of fired actions stops counting
FiredCap == MaxTimes * MaxLen + 1

----------------------------------------------------------------------------
(* Macro player *)

Times == -1 .. MaxTimes

\* the macro argument of play-macro: a sequence of action types
MacroOfLen(n) == [i \in 1..n |-> IF i % 2 = 1 THEN "click" ELSE "key"]
\* the empty macro and the longest one
Macros == {MacroOfLen(0), MacroOfLen(MaxLen)}

\* the callback of an action timer (main.js:191-196)
Dispatch(action) ==
  IF action = "click" THEN <<Cmd("moveMouse", "", ""), MouseClick("left")>>
  ELSE IF action = "key" THEN <<Cmd("keyTap", "", "")>>
  ELSE <<>>

Timer(kind, r, idx, action, d) ==
  [kind |-> kind, run |-> r, idx |-> idx, action |-> action, delay |-> d, rem |-> d]

\* the setTimeout calls of one repetition of closure c (run r), in order
ScheduleActionsOnly(r, c) ==
  [i \in 1..Len(c.macro) |->
     Timer("action", r, i - 1, c.macro[i], TimerDelay(ActionDelay(i - 1, c.speed)))]
Schedule(r, c) ==
  [i \in 1..Len(c.macro) |->
     Timer("action", r, i - 1, c.macro[i], TimerDelay(ActionDelay(i - 1, c.speed)))]
  \o <<Timer("playMacroOnce", r, 0, "",
             TimerDelay(RepeatDelay(Len(c.macro), c.speed)))>>

\* the test at the head of playMacroOnce
RunOver(c, playing) == JsGe(c.playCount, c.maxPlays) \/ ~playing

\* the guard of play-macro
PlayRejected == macroPlaying

\* return false: nothing of the player is touched
ReturnFalseStops == macroPlaying' = FALSE /\ UNCHANGED <<runs, timers>>
ReturnFalse == UNCHANGED macroVars

\* const maxPlays = times === -1 ? Infinity : times
MaxPlays(times) == IF times = -1 THEN Infinity ELSE Fin(times)

\* the closure play-macro creates; times, fired, quiet, stopped, mark and age
\* are history: the times argument, the action callbacks run (of a finite run), whether the
\* engine was quiescent at the call, whether stop-macro was handled since,
\* whether another run's timer dispatched while this run's timer was pending,
\* the milliseconds since the closure's last repetition began
Closure(macro, speed, times) ==
  [macro |-> macro, speed |-> speed, maxPlays |-> MaxPlays(times), playCount |-> 0,
   times |-> times, fired |-> 0, quiet |-> (timers = <<>>), stopped |-> FALSE,
   mark |-> FALSE, age |-> 0]

\* the identities free for a new closure when at most n are alive at once
FreeRuns(n) ==
  {r \in 1..n : r \notin DOMAIN runs /\ \A i \in DOMAIN timers : timers[i].run # r}

\* what lastOp says of closure c after a call of playMacroOnce
RunInfo(op, r, c, dispatched, at) ==
  [NoOp EXCEPT !.op = op, !.run = r, !.speed = c.speed, !.times = c.times,
               !.len = Len(c.macro), !.dispatched = dispatched,
               !.ended = ~dispatched,
               !.count = IF dispatched THEN Incr(c.playCount) ELSE c.playCount,
               !.fired = c.fired, !.quiet = c.quiet, !.stopped = c.stopped,
               !.overlap = dispatched /\ c.mark, !.at = at]

\* playMacroOnce() of closure c (run r), called with macroPlaying = playing,
\* the other closures rs and the pending timers tms; viaTimer tells the call
\* of a setTimeout callback from the call inside play-macro
PlayMacroOnce(r, c, rs, tms, playing, viaTimer) ==
  IF RunOver(c, playing)
  THEN /\ macroPlaying' = FALSE
       /\ runs' = rs
       /\ timers' = tms
  ELSE /\ macroPlaying' = playing
       /\ runs' = [q \in DOMAIN rs \cup {r} |->
                     IF q = r
                     THEN [c EXCEPT !.playCount = Incr(c.playCount),
                                    !.mark = FALSE, !.age = 0]
                     ELSE [rs[q] EXCEPT !.mark = @ \/ viaTimer]]
       /\ timers' = tms \o Schedule(r, c)

\* ipcMain.handle('play-macro'), with at most n closures alive at once
PlayMacro(macro, speed, times, n) ==
  /\ IF PlayRejected
     THEN /\ lastOp' = [NoOp EXCEPT !.op = "play-macro", !.ret = FALSE]
          /\ ReturnFalse
     ELSE /\ FreeRuns(n) # {}
          /\ LET r == CHOOSE q \in FreeRuns(n) : \A p \in FreeRuns(n) : q <= p
                 c == Closure(macro, speed, times)
             IN /\ PlayMacroOnce(r, c, runs, timers, TRUE, FALSE)
                /\ lastOp' = [RunInfo("play-macro", r, c, ~RunOver(c, TRUE), 0)
                                EXCEPT !.ret = TRUE]
  /\ out' = <<>>
  /\ UNCHANGED inputVars

\* ipcMain.handle('stop-macro')
StopMacro ==
  /\ macroPlaying' = FALSE
  /\ runs' = [q \in DOMAIN runs |-> [runs[q] EXCEPT !.stopped = TRUE]]
  /\ lastOp' = [NoOp EXCEPT !.op = "stop-macro", !.ret = TRUE]
  /\ out' = <<>>
  /\ UNCHANGED <<timers, inputVars>>

Without(tms, i) == [j \in 1..(Len(tms) - 1) |-> IF j < i THEN tms[j] ELSE tms[j + 1]]

\* timer i is the next to run: it is due, and no timer registered before it
\* with the same delay is (timers of one delay run in registration order)
Due(i) ==
  /\ timers[i].rem = 0
  /\ \A j \in 1..(i - 1) : ~(timers[j].rem = 0 /\ timers[j].delay = timers[i].delay)

\* a due action callback of main.js:190-197 runs
FireAction(i) ==
  /\ i \in DOMAIN timers
  /\ Due(i)
  /\ timers[i].kind = "action"
  /\ LET t == timers[i]
         live == t.run \in DOMAIN runs
     IN /\ out' = Dispatch(t.action)
        /\ runs' = [q \in DOMAIN runs |->
                      IF q = t.run
                      THEN [runs[q] EXCEPT !.fired = IF runs[q].times >= 0 /\ @ < FiredCap
                                                   THEN @ + 1 ELSE @]
                      ELSE runs[q]]
        /\ lastOp' = [NoOp EXCEPT !.op = "action", !.run = t.run, !.idx = t.idx,
                                  !.speed = IF live THEN runs[t.run].speed ELSE 0,
                                  !.len = IF live THEN Len(runs[t.run].macro) ELSE 0,
                                  !.count = IF live THEN runs[t.run].playCount ELSE 0,
                                  !.stopped = live /\ runs[t.run].stopped,
                                  !.at = IF live THEN runs[t.run].age ELSE 0]
  /\ timers' = Without(timers, i)
  /\ UNCHANGED <<macroPlaying, inputVars>>

\* a due setTimeout(playMacroOnce, ...) callback runs
FirePlayMacroOnce(i) ==
  /\ i \in DOMAIN timers
  /\ Due(i)
  /\ timers[i].kind = "playMacroOnce"
  /\ LET r == timers[i].run
         c == runs[r]
         rs == [q \in DOMAIN runs \ {r} |-> runs[q]]
     IN /\ PlayMacroOnce(r, c, rs, Without(timers, i), macroPlaying, TRUE)
        /\ lastOp' = RunInfo("playMacroOnce", r, c, ~RunOver(c, macroPlaying), c.age)
  /\ out' = <<>>
  /\ UNCHANGED inputVars

\* time passes, up to the next pending callback
Advance ==
  /\ timers # <<>>
  /\ \A i \in DOMAIN timers : timers[i].rem >= Quantum
  /\ timers' = [i \in DOMAIN timers |-> [timers[i] EXCEPT !.rem = @ - Quantum]]
  /\ runs' = [q \in DOMAIN runs |-> [runs[q] EXCEPT !.age = @ + Quantum]]
  /\ lastOp' = [NoOp EXCEPT !.op = "advance"]
  /\ out' = <<>>
  /\ UNCHANGED <<macroPlaying, inputVars>>

----------------------------------------------------------------------------
(* The engine *)

Init ==
  /\ storeSettings = Unset
  /\ storeLastMacro = <<>>
  /\ autoClickerInterval = NoHandle
  /\ intervals = {}
  /\ nextTimerId = 1
  /\ macroRecording = <<>>
  /\ macroPlaying = FALSE
  /\ hotkeyPressed = FALSE
  /\ isAppQuitting = FALSE
  /\ keyListener = "listening"
  /\ runs = <<>>
  /\ timers = <<>>
  /\ synthDown = {}
  /\ recording = FALSE
  /\ heard = <<>>
  /\ lastOp = NoOp
  /\ out = <<>>

NextInput ==
  \/ GetSettings
  \/ \E settings \in SettingsObjects : SaveSettings(settings)
  \/ \E speed \in ClickerSpeeds : StartAutoClicker(speed)
  \/ StopAutoClickerCall
  \/ \E r \in intervals : Tick(r)
  \/ \E name \in Keys : KeyDown(name)
  \/ \E name \in Keys : KeyUp(name)
  \/ BeforeQuit

NextRecorder ==
  \/ StartMacroRecording
  \/ StopMacroRecording
  \/ \E name \in Keys : KeyDown(name)
  \/ \E name \in Keys : KeyUp(name)

\* the arguments of a play-macro call; a call that is rejected returns before
\* it looks at them, so one triple stands for them all
PlayArgs ==
  IF PlayRejected THEN {<<MacroOfLen(0), 1, 0>>}
  ELSE Macros \X Speeds \X Times

NextPlayer(n) ==
  \/ \E args \in PlayArgs : PlayMacro(args[1], args[2], args[3], n)
  \/ StopMacro
  \/ \E i \in DOMAIN timers : FireAction(i)
  \/ \E i \in DOMAIN timers : FirePlayMacroOnce(i)
  \/ Advance

NextMacro == NextPlayer(MaxRuns)

NextOverlap == NextPlayer(MaxRuns + 1)

Next == NextInput \/ NextRecorder \/ NextMacro

Spec == Init /\ [][Next]_vars

\* the input side alone: the macro player shares no variable with it
InputSpec == Init /\ [][NextInput]_vars

NextStops ==
  \/ \E speed \in ClickerSpeeds : StartAutoClicker(speed)
  \/ StopAutoClickerCall
  \/ \E r \in intervals : Tick(r)
  \/ NextPlayer(1)

\* the two engines a stop handler ends, side by side: the auto-clicker under
\* its start and stop handlers, and the macro player with one closure alive
\* at a time
StopsSpec == Init /\ [][NextStops]_vars

\* the macro recorder and the key listener that observes the raw input
RecorderSpec == Init /\ [][NextRecorder]_vars

\* the macro player alone
MacroSpec == Init /\ [][NextMacro]_vars

\* the macro player with room for one more closure: a play-macro accepted
\* while an earlier run still has its playMacroOnce timer pending
OverlapSpec == Init /\ [][NextOverlap]_vars

\* the macro player with the timer service doing its work: a due callback
\* runs, and time passes while callbacks are pending
FairMacroSpec ==
  /\ MacroSpec
  /\ WF_vars(Advance)
  /\ WF_vars(\E i \in DOMAIN timers : FireAction(i))
  /\ WF_vars(\E i \in DOMAIN timers : FirePlayMacroOnce(i))

----------------------------------------------------------------------------
(* Properties *)

\* what the key listener reads with store.get('settings', {})
Seen == StoreGetSettings(EmptyObject)

KeyToggles(cmds) == SelectSeq(cmds, LAMBDA c : c.cmd = "keyToggle")

\* C1: at most one playback run is in flight: no playMacroOnce timer goes on
\* to dispatch a repetition when, while it was pending, the timer of another
\* run dispatched one
C1_AtMostOneRunInFlight ==
  ~(lastOp.op = "playMacroOnce" /\ lastOp.dispatched /\ lastOp.overlap)

\* C2: a run that was in flight when stop-macro was handled never begins
\* another repetition
C2_StoppedRunNeverRepeats ==
  ~(lastOp.op = "playMacroOnce" /\ lastOp.dispatched /\ lastOp.stopped)

\* C3: at most one auto-clicker interval timer is registered, and
\* autoClickerInterval is non-null exactly when one is, which it then names
C3_OneClickerTimer ==
  /\ Cardinality(intervals) <= 1
  /\ Truthy(autoClickerInterval) <=> intervals # {}
  /\ \A r \in intervals : r.id = autoClickerInterval.id

C3_Witness ==
  /\ lastOp.op = "key-down"
  /\ Truthy(autoClickerInterval)
  /\ autoClickerInterval.id = 3
  /\ isAppQuitting = FALSE

\* C4: play-macro called while macroPlaying is true returns false and leaves
\* macroPlaying, the closures and the pending timers as they were
C4_RejectedPlayChangesNothing ==
  [][(lastOp'.op = "play-macro" /\ macroPlaying)
       => (lastOp'.ret = FALSE /\ UNCHANGED macroVars)]_vars

C4_Witness ==
  /\ lastOp.op = "play-macro"
  /\ lastOp.ret = FALSE
  /\ macroPlaying
  /\ \E r \in DOMAIN runs : runs[r].playCount = MaxSafeCount /\ runs[r].times = -1

\* C5: a run accepted in a quiescent engine with times = N >= 0 and not
\* stopped ends with N repetitions and N * length actions dispatched, its last
\* check dispatching nothing and leaving macroPlaying false
C5_QuietRunEnds ==
  (/\ lastOp.op \in {"play-macro", "playMacroOnce"}
   /\ lastOp.ended /\ lastOp.quiet /\ ~lastOp.stopped /\ lastOp.times >= 0)
  => /\ lastOp.count = lastOp.times
     /\ lastOp.fired = lastOp.times * lastOp.len
     /\ ~macroPlaying
     /\ out = <<>>
     /\ \A i \in DOMAIN timers : timers[i].run # lastOp.run

\* C5: ... and such a run is not left playing for ever
C5_QuietRunCompletes ==
  /\ []C5_QuietRunEnds
  /\ (\E r \in DOMAIN runs :
        runs[r].quiet /\ runs[r].times >= 0 /\ ~runs[r].stopped)
       ~> ~macroPlaying

C5_Witness ==
  /\ lastOp.op = "playMacroOnce"
  /\ lastOp.ended /\ lastOp.quiet /\ ~lastOp.stopped
  /\ lastOp.times = MaxTimes /\ lastOp.len = MaxLen
  /\ lastOp.fired = MaxTimes * MaxLen

\* C6: the action at index i runs i * (100 / speed) ms after its repetition
\* began, for a positive speed (its closure being alive to tell)
C6_ActionOffset ==
  /\ \A i \in DOMAIN timers : timers[i].run \in DOMAIN runs
  /\ (lastOp.op = "action" /\ lastOp.speed > 0)
       => lastOp.at * lastOp.speed = lastOp.idx * StepMs

C6_Witness ==
  /\ lastOp.op = "action"
  /\ lastOp.speed = 2 /\ lastOp.idx = MaxLen - 1 /\ lastOp.at = 50 * (MaxLen - 1)
  /\ lastOp.count = MaxSafeCount

\* C7: start-auto-clicker with speed <= 0 reports failure and registers no timer
C7_NonPositiveRejected ==
  (lastOp.op = "start-auto-clicker" /\ lastOp.speed <= 0)
    => (lastOp.ret = FALSE /\ intervals = {})

\* C8: save-settings changing hotkeyButton or hotkeyMode while the synthetic
\* key is down emits a key-up for the previously bound key
C8_ForceRelease ==
  [][(/\ lastOp'.op = "save-settings"
      /\ Seen.hotkeyButton # Undef
      /\ ToLowerCase(Seen.hotkeyButton) \in synthDown
      /\ \/ storeSettings'.hotkeyButton # Seen.hotkeyButton
         \/ storeSettings'.hotkeyMode # Seen.hotkeyMode)
       => \E i \in DOMAIN out' :
            out'[i] = KeyToggle(ToLowerCase(Seen.hotkeyButton), "up")]_vars

Sent(cmds) == {cmds[i].a : i \in {j \in DOMAIN cmds : cmds[j].cmd = "send"}}

\* C11: each toggleAutoClicker call flips the auto-clicker between active and
\* inactive (so two calls return it to where it was) and changes the number of
\* registered interval timers by exactly one: active, it cancels the timer and
\* sends 'auto-clicker-stopped'; inactive, it registers one timer at
\* settings.autoClickerSpeed (100 ms if unset) and sends 'auto-clicker-started'
C11_ToggleFlips ==
  [][(lastOp'.op = "key-down" /\ lastOp'.key = OrKey(Seen.autoClickerHotkey, "F1"))
       => IF Truthy(autoClickerInterval)
          THEN /\ ~Truthy(autoClickerInterval')
               /\ intervals' = {r \in intervals : r.id # autoClickerInterval.id}
               /\ Cardinality(intervals') = Cardinality(intervals) - 1
               /\ Sent(out') = {"auto-clicker-stopped"}
          ELSE /\ Truthy(autoClickerInterval')
               /\ Cardinality(intervals') = Cardinality(intervals) + 1
               /\ intervals' \ intervals =
                    {[id |-> autoClickerInterval'.id,
                      ms |-> IF Seen.autoClickerSpeed.t = "undefined" THEN 100
                             ELSE Seen.autoClickerSpeed.v]}
               /\ Sent(out') = {"auto-clicker-started"}]_vars

\* start-auto-clicker, one toggle that stopped it, and the toggle that
\* restarted it at the 50 ms of the settings
C11_Witness ==
  /\ lastOp.op = "key-down"
  /\ lastOp.key = OrKey(Seen.autoClickerHotkey, "F1")
  /\ Seen.autoClickerSpeed = Num(50)
  /\ intervals = {[id |-> 2, ms |-> 50]}
  /\ autoClickerInterval = Handle(2)
  /\ Sent(out) = {"auto-clicker-started"}

\* C15: start-auto-clicker while a timer is active replaces it: the call
\* returns true, the timer registered before is cancelled and is never the one
\* that ticks, and exactly one timer, with the interval given, is registered
C15_StartReplaces ==
  [][/\ lastOp'.op = "start-auto-clicker"
          => /\ lastOp'.ret = TRUE
             /\ Truthy(autoClickerInterval')
             /\ intervals' = {[id |-> autoClickerInterval'.id, ms |-> lastOp'.speed]}
             /\ \A r \in intervals : r.id # autoClickerInterval'.id
     /\ lastOp'.op = "tick"
          => /\ Truthy(autoClickerInterval)
             /\ lastOp'.run = autoClickerInterval.id]_vars

\* the second timer, registered in place of the first while that was active
C15_Witness ==
  /\ lastOp.op = "start-auto-clicker"
  /\ lastOp.active
  /\ lastOp.ret = TRUE
  /\ intervals = {[id |-> 2, ms |-> 50]}
  /\ autoClickerInterval = Handle(2)

\* C19: while the store holds no 'settings' entry, a DOWN or UP event of 'F'
\* emits no synthetic key event and leaves hotkeyPressed and the synthetic
\* keys as they were, although get-settings reports hotkeyButton 'F' in
\* hotkeyMode 'toggle'
C19_UnsavedHotkeyInert ==
  [][~storeSettings.set
       => /\ (lastOp'.op \in {"key-down", "key-up"} /\ lastOp'.key = "F")
               => /\ KeyToggles(out') = <<>>
                  /\ hotkeyPressed' = hotkeyPressed
                  /\ synthDown' = synthDown
          /\ lastOp'.op = "get-settings"
               => /\ lastOp'.val.hotkeyButton = "F"
                  /\ lastOp'.val.hotkeyMode = "toggle"]_vars

C19_Witness ==
  /\ lastOp.op = "key-down"
  /\ lastOp.key = "F"
  /\ ~storeSettings.set
  /\ Truthy(autoClickerInterval)
  /\ out = <<>>

\* C13: stop-macro-recording returns the actions recorded since
\* start-macro-recording, in the order they were recorded, and the empty
\* sequence when no start-macro-recording went before
C13_RecordedInOrder ==
  lastOp.op = "stop-macro-recording"
    => /\ Len(lastOp.seq) = Len(heard)
       /\ \A i \in DOMAIN lastOp.seq :
            lastOp.seq[i] = [type |-> "key", key |-> heard[i]]

\* the engine state of C12
EngineState == <<autoClickerInterval, intervals, macroPlaying, timers>>

\* C12: stop-auto-clicker with no active timer and stop-macro with
\* macroPlaying false return true and leave autoClickerInterval, macroPlaying
\* and the registered timers unchanged; so does the second of two calls of
\* either stop in a row
C12_IdleStopsAreNoOps ==
  [][/\ lastOp'.op = "stop-auto-clicker"
          => /\ lastOp'.ret = TRUE
             /\ (~Truthy(autoClickerInterval) \/ lastOp.op = "stop-auto-clicker")
                  => EngineState' = EngineState
     /\ lastOp'.op = "stop-macro"
          => /\ lastOp'.ret = TRUE
             /\ (~macroPlaying \/ lastOp.op = "stop-macro")
                  => EngineState' = EngineState]_vars

\* a stop-auto-clicker that found no active timer, after an earlier one
\* cancelled it, with a stopped run's timers still pending
C12_Witness ==
  /\ lastOp.op = "stop-auto-clicker"
  /\ ~lastOp.active
  /\ autoClickerInterval = NullHandle
  /\ ~macroPlaying
  /\ timers # <<>>

\* C14: play-macro of a zero-length macro, for every times value, dispatches
\* no action and does not leave the engine playing: once the call is handled
\* macroPlaying is false and nothing of the run is scheduled
C14_EmptyMacroIsNoOp ==
  /\ (lastOp.op = "play-macro" /\ lastOp.ret = TRUE /\ lastOp.len = 0)
       => /\ ~macroPlaying
          /\ \A i \in DOMAIN timers : timers[i].run # lastOp.run
  /\ \A i \in DOMAIN timers :
       (timers[i].run \in DOMAIN runs /\ runs[timers[i].run].macro = <<>>)
         => timers[i].kind # "action"

\* the pending action callbacks of run r
ActionTimers(r) ==
  {i \in DOMAIN timers : timers[i].run = r /\ timers[i].kind = "action"}

\* C16: a repetition begins length * (100 / speed) + 100 ms after the one
\* before it began (for a positive speed); the actions of a repetition run in
\* index order, and all of them have run when the next repetition begins
C16_RepetitionCadence ==
  /\ (lastOp.op = "playMacroOnce" /\ lastOp.dispatched /\ lastOp.speed > 0)
       => lastOp.at * lastOp.speed = lastOp.len * StepMs + GapMs * lastOp.speed
  /\ lastOp.op = "action"
       => \A i \in ActionTimers(lastOp.run) : timers[i].idx > lastOp.idx
  /\ (lastOp.op = "playMacroOnce" /\ lastOp.dispatched)
       => /\ Cardinality(ActionTimers(lastOp.run)) = lastOp.len
          /\ \A i \in ActionTimers(lastOp.run) : timers[i].rem = timers[i].delay

\* a later repetition of the longest macro beginning, at speed 2
C16_Witness ==
  /\ lastOp.op = "playMacroOnce"
  /\ lastOp.dispatched
  /\ lastOp.speed = 2 /\ lastOp.len = MaxLen
  /\ lastOp.at = MaxLen * 50 + 100
  /\ lastOp.count = MaxSafeCount

\* C17: the terminating check of a run that was stopped before a later run
\* was accepted does not set macroPlaying to false while that later run has
\* repetitions left
C17_EarlierRunLeavesLaterAlone ==
  [][(/\ lastOp'.op = "playMacroOnce"
      /\ lastOp'.ended /\ lastOp'.stopped
      /\ \E q \in DOMAIN runs' :
            /\ ~runs'[q].stopped
            /\ ~JsGe(runs'[q].playCount, runs'[q].maxPlays))
       => macroPlaying' = macroPlaying]_vars

\* closure c re-arms timers of no delay for ever, and the clock of the model
\* stands still while it does
ZeroDelayForEver(c) == c.times = -1 /\ c.speed = 0

\* C18: while macroPlaying is true a playMacroOnce timer is pending, and
\* stop-macro leaves macroPlaying false
C18_PlayingHasTimer ==
  /\ macroPlaying => \E i \in DOMAIN timers : timers[i].kind = "playMacroOnce"
  /\ lastOp.op = "stop-macro" => ~macroPlaying

\* C18: ... and a run with finite times leads to macroPlaying false, no
\* closure holding the clock
C18_PlayingEnds ==
  /\ []C18_PlayingHasTimer
  /\ (/\ macroPlaying
      /\ \E r \in DOMAIN runs : runs[r].times >= 0
      /\ \A r \in DOMAIN runs : ~ZeroDelayForEver(runs[r]))
       ~> ~macroPlaying

\* playing, every action of the repetition run, the next check pending alone
C18_Witness ==
  /\ macroPlaying
  /\ lastOp.op = "action"
  /\ lastOp.idx = MaxLen - 1
  /\ Len(timers) = 1
  /\ timers[1].kind = "playMacroOnce"
  /\ timers[1].rem > 0

====
